---------------------------- MODULE Spec2Model ----------------------------
(***************************************************************************)
(* A state-machine model of btc_regime_detection.py: the chunked download  *)
(* of hourly bars, the concatenation / sort / de-duplication, the feature  *)
(* engineering, the fit of the 7-state Gaussian HMM, the decoding and the  *)
(* per-regime summary.                                                     *)
(*                                                                         *)
(* Time is counted in days (datetime / timedelta arithmetic is exact).     *)
(* A float is modelled by the exact value it stands for: a rational in     *)
(* lowest terms, or one of NaN, +inf, -inf.                                *)
(***************************************************************************)
EXTENDS Integers, Sequences, FiniteSets, TLC

VARIABLES
    pc,          \* the statement the script is about to execute
    end_date,    \* line 21
    start_date,  \* line 22
    t,           \* line 26, the loop variable of the boundaries loop
    boundaries,  \* line 25, sequence of <<s, e>>
    idx,         \* position of the download loop (line 34) in boundaries
    frames,      \* line 33, the non-empty downloaded frames
    loaded,      \* history: the frame as it is after line 41
    data,        \* the DataFrame `data` (a sequence of rows)
    X,           \* line 63, the observation matrix
    trainState,  \* the state of the training (model.fit)
    iter,        \* model.monitor_.iter
    params,      \* the fitted parameters, by the number of M-steps applied
    decoded,     \* TRUE once model.predict has returned
    summary,     \* lines 80-84
    stdout,      \* what line 74 printed
    warned       \* the warnings shown to the user

vars == <<pc, end_date, start_date, t, boundaries, idx, frames, loaded, data,
          X, trainState, iter, params, decoded, summary, stdout, warned>>

-----------------------------------------------------------------------------
(* Bounds of the model *)

\* datetime.now() ranges over NowSpan + 1 consecutive days
NowSpan == 30
\* the downloads deliver at most MaxBars bars in total
MaxBars == 3
\* the frame handed to model.fit has at most MaxTrainBars bars
MaxTrainBars == 2
\* the frame handed to model.predict has at most MaxObsBars bars
MaxObsBars == 3

-----------------------------------------------------------------------------
(* Floats *)

NaN  == [k |-> "nan", n |-> 0, d |-> 1]
PInf == [k |-> "inf", n |-> 0, d |-> 1]
NInf == [k |-> "ninf", n |-> 0, d |-> 1]

Abs(a) == IF a < 0 THEN -a ELSE a

RECURSIVE GCD(_, _)
GCD(a, b) == IF b = 0 THEN a ELSE GCD(b, a % b)

\* the finite value n/d (d # 0), in lowest terms with a positive denominator
Fin(n, d) ==
    LET g == GCD(Abs(n), Abs(d))
        s == IF d < 0 THEN -1 ELSE 1
    IN  [k |-> "fin", n |-> (s * n) \div g, d |-> (s * d) \div g]

IsFinite(v) == v.k = "fin"

\* a / b of two finite integral floats (IEEE: x/0 is +-inf, 0/0 is NaN)
FDiv(a, b) ==
    IF b # 0 THEN Fin(a, b)
    ELSE IF a = 0 THEN NaN
    ELSE IF a > 0 THEN PInf ELSE NInf

\* v - 1
FSubOne(v) == IF IsFinite(v) THEN Fin(v.n - v.d, v.d) ELSE v

LCM(a, b) == (a \div GCD(a, b)) * b

FAdd(a, b) ==
    LET m == LCM(a.d, b.d)
    IN  Fin(a.n * (m \div a.d) + b.n * (m \div b.d), m)
FNeg(a) == Fin(-a.n, a.d)
FSub(a, b) == FAdd(a, FNeg(b))
FMul(a, b) == Fin(a.n * b.n, a.d * b.d)
FLess(a, b) == a.n * b.d < b.n * a.d

-----------------------------------------------------------------------------
(* 1) The chunk boundaries, lines 21-30 *)

WindowDays == 729
chunk_size == 245

Min(a, b) == IF a < b THEN a ELSE b

ChunkEndNoClamp(tt, e) == tt + chunk_size

\* line 28
ChunkEnd(tt, e) == Min(tt + chunk_size, e)

\* one pass of the while loop, lines 27-30
ChunkStep ==
    /\ pc = "chunks"
    /\ t < end_date
    /\ LET t_end == ChunkEnd(t, end_date)
       IN  /\ boundaries' = Append(boundaries, <<t, t_end>>)
           /\ t' = t_end
    /\ UNCHANGED <<pc, end_date, start_date, idx, frames, loaded, data, X,
                   trainState, iter, params, decoded, summary, stdout, warned>>

\* the loop condition of line 27 fails; lines 32-33
ChunkExit ==
    /\ pc = "chunks"
    /\ ~(t < end_date)
    /\ pc' = "download"
    /\ idx' = 1
    /\ frames' = <<>>
    /\ UNCHANGED <<end_date, start_date, t, boundaries, loaded, data, X,
                   trainState, iter, params, decoded, summary, stdout, warned>>

\* the state after line 26, with datetime.now() = now
Start(now) ==
    /\ pc = "chunks"
    /\ end_date = now
    /\ start_date = now - WindowDays
    /\ t = now - WindowDays
    /\ boundaries = <<>>
    /\ idx = 0
    /\ frames = <<>>
    /\ loaded = <<>>
    /\ data = <<>>
    /\ X = <<>>
    /\ trainState = "None"
    /\ iter = 0
    /\ params = 0
    /\ decoded = FALSE
    /\ summary = <<>>
    /\ stdout = <<>>
    /\ warned = {}

InitChunks == \E now \in WindowDays .. (WindowDays + NowSpan) : Start(now)

NextChunks == ChunkStep \/ ChunkExit

SpecChunks == InitChunks /\ [][NextChunks]_vars


-----------------------------------------------------------------------------
(* 2) The downloads, lines 33-48 *)

\* the timestamps (hours) a bar can carry
TsVals == {1, 2, 3}

\* the OHLCV values a bar can carry: the closes and volumes of the
\* feature example, a bar with a zero close and a bar with a zero volume
Quotes ==
    { [Close |-> 100, High |-> 101, Low |-> 99,  Volume |-> 10],
      [Close |-> 110, High |-> 112, Low |-> 108, Volume |-> 20],
      [Close |-> 99,  High |-> 99,  Low |-> 99,  Volume |-> 15],
      [Close |-> 0,   High |-> 1,   Low |-> 0,   Volume |-> 5],
      [Close |-> 100, High |-> 100, Low |-> 100, Volume |-> 0] }

Bar(ts, q) == [ts |-> ts, Close |-> q.Close, High |-> q.High,
               Low |-> q.Low, Volume |-> q.Volume]

SetMin(S) == CHOOSE x \in S : \A y \in S : x <= y

\* the elements of a set of integers, ascending
RECURSIVE Ascending(_)
Ascending(S) ==
    IF S = {} THEN <<>>
    ELSE LET m == SetMin(S) IN <<m>> \o Ascending(S \ {m})

\* what one yf.download call can return: a frame of at most cap bars whose
\* index is ascending (the provider answers with a time series)
Frames(cap) ==
    UNION { { [j \in 1 .. Cardinality(S) |-> Bar(Ascending(S)[j], f[Ascending(S)[j]])] :
                f \in [S -> Quotes] } :
            S \in { T \in SUBSET TsVals : Cardinality(T) <= cap } }

RECURSIVE TotalLen(_)
TotalLen(fs) == IF fs = <<>> THEN 0 ELSE Len(Head(fs)) + TotalLen(Tail(fs))

\* one pass of the for loop, lines 34-38
Download ==
    /\ pc = "download"
    /\ idx <= Len(boundaries)
    /\ \E df \in Frames(MaxBars - TotalLen(frames)) :
          frames' = IF df # <<>> THEN Append(frames, df) ELSE frames
    /\ idx' = idx + 1
    /\ UNCHANGED <<pc, end_date, start_date, t, boundaries, loaded, data, X,
                   trainState, iter, params, decoded, summary, stdout, warned>>

\* pd.concat, line 40
RECURSIVE Concat(_)
Concat(fs) == IF fs = <<>> THEN <<>> ELSE Head(fs) \o Concat(Tail(fs))

IsMonotonic(rows) ==
    \A j \in 1 .. Len(rows) - 1 : rows[j].ts <= rows[j + 1].ts

Perms(rows) ==
    { [j \in 1 .. Len(rows) |-> rows[p[j]]] :
        p \in { q \in [1 .. Len(rows) -> 1 .. Len(rows)] :
                  \A a, b \in 1 .. Len(rows) : a # b => q[a] # q[b] } }

\* DataFrame.sort_index(), line 40: a frame whose index is already
\* monotonic is returned as it is; any other is sorted with the default
\* kind="quicksort", which is not stable: rows with equal timestamps come
\* out in any order
SortIndex(rows) ==
    IF IsMonotonic(rows) THEN {rows}
    ELSE { s \in Perms(rows) : IsMonotonic(s) }

\* data[~data.index.duplicated(keep="first")], line 41
RECURSIVE DropDuplicated(_)
DropDuplicated(rows) ==
    IF rows = <<>> THEN <<>>
    ELSE LET init == SubSeq(rows, 1, Len(rows) - 1)
             last == rows[Len(rows)]
         IN  IF \E j \in 1 .. Len(init) : init[j].ts = last.ts
             THEN DropDuplicated(init)
             ELSE Append(DropDuplicated(init), last)

\* the for loop is over; lines 40-48. pd.concat of an empty list raises
\* ValueError and the script ends
LoadData ==
    /\ pc = "download"
    /\ idx > Len(boundaries)
    /\ IF frames = <<>>
       THEN /\ pc' = "aborted"
            /\ UNCHANGED <<data, loaded>>
       ELSE /\ \E s \in SortIndex(Concat(frames)) :
                 /\ data' = DropDuplicated(s)
                 /\ loaded' = DropDuplicated(s)
            /\ pc' = "features"
    /\ UNCHANGED <<end_date, start_date, t, boundaries, idx, frames, X,
                   trainState, iter, params, decoded, summary, stdout, warned>>


-----------------------------------------------------------------------------
(* 3) Feature engineering, lines 51-63 *)

PctChangeRatio(cur, prev) == FDiv(cur, prev)

\* one element of Series.pct_change(): cur / prev - 1
PctChangeOf(cur, prev) == FSubOne(FDiv(cur, prev))

\* Series.pct_change() at position j: the first element has no predecessor
PctChange(rows, col, j) ==
    IF j = 1 THEN NaN ELSE PctChangeOf(rows[j][col], rows[j - 1][col])

WithFeatures(r, ret, rng, vol) ==
    [ts |-> r.ts, Close |-> r.Close, High |-> r.High, Low |-> r.Low,
     Volume |-> r.Volume, return |-> ret, range |-> rng, vol_change |-> vol]

\* lines 51-53
AddFeatures(rows) ==
    [j \in 1 .. Len(rows) |->
        WithFeatures(rows[j],
                     PctChange(rows, "Close", j),
                     FDiv(rows[j].High - rows[j].Low, rows[j].Close),
                     PctChange(rows, "Volume", j))]

ReplaceNothing(v) == v

\* replace([np.inf, -np.inf], np.nan) on one value, line 56
ReplaceInf(v) == IF v.k \in {"inf", "ninf"} THEN NaN ELSE v

IsNa(v) == v.k = "nan"

\* lines 56-57
Clean(rows) ==
    LET replaced == [j \in 1 .. Len(rows) |->
                        WithFeatures(rows[j], ReplaceInf(rows[j].return),
                                     ReplaceInf(rows[j].range),
                                     ReplaceInf(rows[j].vol_change))]
        Keep(r) == ~(IsNa(r.return) \/ IsNa(r.range) \/ IsNa(r.vol_change))
    IN  SelectSeq(replaced, Keep)

\* data[features].values, lines 62-63
Values(rows) ==
    [j \in 1 .. Len(rows) |-> <<rows[j].return, rows[j].range, rows[j].vol_change>>]

Features ==
    /\ pc = "features"
    /\ data' = AddFeatures(data)
    /\ pc' = "clean"
    /\ UNCHANGED <<end_date, start_date, t, boundaries, idx, frames, loaded, X,
                   trainState, iter, params, decoded, summary, stdout, warned>>

DropRows ==
    /\ pc = "clean"
    /\ data' = Clean(data)
    /\ pc' = "matrix"
    /\ UNCHANGED <<end_date, start_date, t, boundaries, idx, frames, loaded, X,
                   trainState, iter, params, decoded, summary, stdout, warned>>

Matrix ==
    /\ pc = "matrix"
    /\ X' = Values(data)
    /\ pc' = "train"
    /\ UNCHANGED <<end_date, start_date, t, boundaries, idx, frames, loaded, data,
                   trainState, iter, params, decoded, summary, stdout, warned>>

InitData == Start(WindowDays)

NextData ==
    \/ ChunkStep
    \/ ChunkExit
    \/ Download
    \/ LoadData
    \/ Features
    \/ DropRows
    \/ Matrix

SpecData == InitData /\ [][NextData]_vars


\* the position in the loaded frame of the bar with timestamp ts
PosOf(ts) == CHOOSE j \in 1 .. Len(loaded) : loaded[j].ts = ts

\* C1: once the rows are dropped, the first bar is gone, so is every bar
\* one of whose three features is not a finite number (a zero close, or a
\* predecessor with a zero close or a zero volume), and no value of the
\* observation matrix is NaN or infinite.
C1_NoMissingOrInfinite ==
    /\ pc \in {"matrix", "train"} =>
          /\ \A j \in 1 .. Len(loaded) :
                (\/ j = 1
                 \/ loaded[j].Close = 0
                 \/ (j > 1 /\ loaded[j - 1].Close = 0)
                 \/ (j > 1 /\ loaded[j - 1].Volume = 0))
                => ~ \E m \in 1 .. Len(data) : data[m].ts = loaded[j].ts
          /\ \A m \in 1 .. Len(data) :
                /\ data[m].return.k = "fin"
                /\ data[m].range.k = "fin"
                /\ data[m].vol_change.k = "fin"
    /\ pc = "train" =>
          /\ Len(X) = Len(data)
          /\ \A m \in 1 .. Len(X) : \A c \in 1 .. 3 : X[m][c].k = "fin"

\* a bar other than the first was dropped and a bar was kept
C1_Witness ==
    /\ pc = "train"
    /\ Len(loaded) = 3
    /\ Len(X) = 1
    /\ \E j \in 1 .. 3 : loaded[j].Close = 0 \/ loaded[j].Volume = 0

\* C2: every row of the observation matrix is the row of a bar t >= 1 of
\* the loaded frame, and holds close_t / close_{t-1} - 1,
\* (high_t - low_t) / close_t and volume_t / volume_{t-1} - 1; closes
\* 100, 110, 99 with volumes 10, 20, 15 give the returns 1/10, -1/10 and
\* the volume changes 1, -1/4.
C2_FeatureValues ==
    pc = "train" =>
        /\ \A m \in 1 .. Len(X) :
              LET j == PosOf(data[m].ts)
                  ret == X[m][1]
                  rng == X[m][2]
                  vol == X[m][3]
              IN  /\ j >= 2
                  /\ ret.d > 0 /\ rng.d > 0 /\ vol.d > 0
                  /\ (ret.n + ret.d) * loaded[j - 1].Close = loaded[j].Close * ret.d
                  /\ rng.n * loaded[j].Close = (loaded[j].High - loaded[j].Low) * rng.d
                  /\ (vol.n + vol.d) * loaded[j - 1].Volume = loaded[j].Volume * vol.d
        /\ ( /\ Len(loaded) = 3
             /\ [j \in 1 .. 3 |-> loaded[j].Close] = <<100, 110, 99>>
             /\ [j \in 1 .. 3 |-> loaded[j].Volume] = <<10, 20, 15>> )
           => /\ Len(X) = 2
              /\ <<X[1][1].n, X[1][1].d>> = <<1, 10>>
              /\ <<X[2][1].n, X[2][1].d>> = <<-1, 10>>
              /\ <<X[1][3].n, X[1][3].d>> = <<1, 1>>
              /\ <<X[2][3].n, X[2][3].d>> = <<-1, 4>>

C2_Witness ==
    /\ pc = "train"
    /\ Len(X) = 2
    /\ [j \in 1 .. Len(loaded) |-> loaded[j].Close] = <<100, 110, 99>>
    /\ [j \in 1 .. Len(loaded) |-> loaded[j].Volume] = <<10, 20, 15>>


-----------------------------------------------------------------------------
(* 4) Training, lines 65-74 *)

n_components == 7
n_iter_off == 1000 + 1
n_iter == 1000

\* warnings.filterwarnings("ignore"), line 9: the warnings that reach the user
Shown(ws) == {}

TrainOk == {"Converged", "MaxIterReached"}
Terminal == TrainOk \cup {"Failed"}

\* model.fit(X) is called, line 73: the parameters are seeded
FitStart ==
    /\ pc = "train"
    /\ pc' = "fit"
    /\ trainState' = "Initialized"
    /\ iter' = 0
    /\ params' = 0
    /\ UNCHANGED <<end_date, start_date, t, boundaries, idx, frames, loaded, data,
                   X, decoded, summary, stdout, warned>>

\* the EM loop is entered
EMBegin ==
    /\ pc = "fit"
    /\ trainState = "Initialized"
    /\ trainState' = "Iterating"
    /\ UNCHANGED <<pc, end_date, start_date, t, boundaries, idx, frames, loaded,
                   data, X, iter, params, decoded, summary, stdout, warned>>

\* one EM iteration: E-step, M-step, log-likelihood compared to the last
\* one. It meets the tolerance, or hits the ceiling n_iter, or goes on;
\* a re-estimation that cannot be repaired fails the training
EMIterate ==
    /\ pc = "fit"
    /\ trainState = "Iterating"
    /\ iter < n_iter
    /\ \/ /\ iter' = iter + 1
          /\ params' = params + 1
          /\ \E met \in BOOLEAN :
                trainState' = IF met THEN "Converged"
                              ELSE IF iter + 1 >= n_iter THEN "MaxIterReached"
                              ELSE "Iterating"
       \/ /\ trainState' = "Failed"
          /\ UNCHANGED <<iter, params>>
    /\ UNCHANGED <<pc, end_date, start_date, t, boundaries, idx, frames, loaded,
                   data, X, decoded, summary, stdout, warned>>

AfterFitSwallow(st) == "predict"

\* where the script goes when model.fit ends: an exception ends the script
AfterFit(st) == IF st = "Failed" THEN "aborted" ELSE "predict"

\* model.fit returns or raises; line 74 prints "Converged after <iter>
\* iterations" whenever it is reached
FitEnd ==
    /\ pc = "fit"
    /\ trainState \in Terminal
    /\ pc' = AfterFit(trainState)
    /\ IF pc' = "predict"
       THEN /\ stdout' = Append(stdout, [msg |-> "Converged", after |-> iter])
            /\ \E emitted \in SUBSET {"NonConvergenceWarning"} :
                  warned' = warned \cup Shown(emitted)
       ELSE UNCHANGED <<stdout, warned>>
    /\ UNCHANGED <<end_date, start_date, t, boundaries, idx, frames, loaded, data,
                   X, trainState, iter, params, decoded, summary>>

-----------------------------------------------------------------------------
(* 5) Decoding and the summary, lines 77-90 *)

WithState(r, k) ==
    [ts |-> r.ts, Close |-> r.Close, High |-> r.High, Low |-> r.Low,
     Volume |-> r.Volume, return |-> r.return, range |-> r.range,
     vol_change |-> r.vol_change, state |-> k]

\* data["state"] = model.predict(X), line 77: one label in 0 .. 6 per row
Predict ==
    /\ pc = "predict"
    /\ \E path \in [1 .. Len(X) -> 0 .. n_components - 1] :
          data' = [j \in 1 .. Len(data) |-> WithState(data[j], path[j])]
    /\ decoded' = TRUE
    /\ pc' = "summary"
    /\ UNCHANGED <<end_date, start_date, t, boundaries, idx, frames, loaded, X,
                   trainState, iter, params, summary, stdout, warned>>

RECURSIVE FSum(_)
FSum(vs) == IF vs = <<>> THEN Fin(0, 1) ELSE FAdd(Head(vs), FSum(Tail(vs)))

\* Series.mean()
Mean(vs) == LET sum == FSum(vs) IN Fin(sum.n, sum.d * Len(vs))

\* Series.std() (ddof = 1), given by its square; NaN for a single value
Std2(vs) ==
    IF Len(vs) < 2 THEN NaN
    ELSE LET mu == Mean(vs)
             sq == [j \in 1 .. Len(vs) |-> FMul(FSub(vs[j], mu), FSub(vs[j], mu))]
             sum == FSum(sq)
         IN  Fin(sum.n, sum.d * (Len(vs) - 1))

\* the return column of the rows labelled k
GroupOf(rows, k) ==
    LET Is(r) == r.state = k
        g == SelectSeq(rows, Is)
    IN  [j \in 1 .. Len(g) |-> g[j].return]

\* groupby("state")["return"].agg(mean, std, count), lines 81-82: one entry
\* per label that occurs, by ascending label
GroupAgg(rows) ==
    LET labels == Ascending({ rows[j].state : j \in 1 .. Len(rows) })
    IN  [j \in 1 .. Len(labels) |->
            [state |-> labels[j],
             Mean_Return |-> Mean(GroupOf(rows, labels[j])),
             Volatility2 |-> Std2(GroupOf(rows, labels[j])),
             Count |-> Len(GroupOf(rows, labels[j]))]]

SeqPerms(es) ==
    { [j \in 1 .. Len(es) |-> es[p[j]]] :
        p \in { q \in [1 .. Len(es) -> 1 .. Len(es)] :
                  \A a, b \in 1 .. Len(es) : a # b => q[a] # q[b] } }

SortValuesAscending(es) ==
    { s \in SeqPerms(es) :
        \A j \in 1 .. Len(s) - 1 : ~FLess(s[j + 1].Mean_Return, s[j].Mean_Return) }

\* sort_values("Mean_Return", ascending=False), line 83; the default sort is
\* not stable: entries with equal means come out in any order
SortValues(es) ==
    { s \in SeqPerms(es) :
        \A j \in 1 .. Len(s) - 1 : ~FLess(s[j].Mean_Return, s[j + 1].Mean_Return) }

Summarise ==
    /\ pc = "summary"
    /\ summary' \in SortValues(GroupAgg(data))
    /\ pc' = "report"
    /\ UNCHANGED <<end_date, start_date, t, boundaries, idx, frames, loaded, data,
                   X, trainState, iter, params, decoded, stdout, warned>>

\* lines 86-126: the table is printed and the chart drawn
Report ==
    /\ pc = "report"
    /\ pc' = "done"
    /\ UNCHANGED <<end_date, start_date, t, boundaries, idx, frames, loaded, data,
                   X, trainState, iter, params, decoded, summary, stdout, warned>>

-----------------------------------------------------------------------------
(* The training and the summary on their own *)

FlatBar(ts, c) == [ts |-> ts, Close |-> c, High |-> c, Low |-> c, Volume |-> 10]

FlatFrame(closes) == [j \in 1 .. Len(closes) |-> FlatBar(j, closes[j])]

\* the state at statement p when the downloads delivered the frame bars in
\* one chunk and the training, if it ran, ended in state st after it
\* iterations
StateAt(bars, p, st, it) ==
    /\ pc = p
    /\ end_date = WindowDays
    /\ start_date = 0
    /\ t = WindowDays
    /\ boundaries = <<<<0, 245>>, <<245, 490>>, <<490, 729>>>>
    /\ idx = 4
    /\ frames = <<bars>>
    /\ loaded = bars
    /\ data = Clean(AddFeatures(bars))
    /\ X = Values(Clean(AddFeatures(bars)))
    /\ trainState = st
    /\ iter = it
    /\ params = it
    /\ decoded = FALSE
    /\ summary = <<>>
    /\ stdout = IF st = "None" THEN <<>> ELSE <<[msg |-> "Converged", after |-> it]>>
    /\ warned = {}

TrainFrames ==
    UNION { { FlatFrame(cs) : cs \in [1 .. n -> {100, 200}] } : n \in 1 .. MaxTrainBars }

\* the state after line 63
InitTrain == \E bars \in TrainFrames : StateAt(bars, "train", "None", 0)

NextTrain ==
    \/ FitStart
    \/ EMBegin
    \/ EMIterate
    \/ FitEnd
    \/ Predict

\* the script runs on until it ends
SpecTrain == InitTrain /\ [][NextTrain]_vars /\ WF_vars(NextTrain)


\* C6: with fewer than 50 usable rows no training, decoding or summary is
\* performed: the run ends before model.fit.
C6_NoTrainingOnShortMatrix ==
    (pc \notin {"chunks", "download", "features", "clean", "matrix"} /\ Len(X) < 50)
    => /\ trainState = "None"
       /\ ~decoded
       /\ summary = <<>>
       /\ pc \in {"train", "aborted"}

\* C7: a state path exists only when a training has ended with fitted
\* parameters, which are those the training left; a training that has not
\* ended, or has failed, yields no state path.
C7_DecodeAfterTraining ==
    /\ (decoded \/ pc \in {"predict", "summary", "report", "done"}) =>
          /\ trainState \in TrainOk
          /\ params = iter
          /\ iter >= 1
    /\ trainState \notin TrainOk =>
          /\ ~decoded
          /\ summary = <<>>
          /\ \A m \in 1 .. Len(data) : "state" \notin DOMAIN data[m]
    /\ decoded => \A m \in 1 .. Len(data) : data[m].state \in 0 .. 6

C7_Witness ==
    /\ decoded
    /\ trainState = "Converged"
    /\ Len(data) >= 1
    /\ "state" \in DOMAIN data[1]

TrainEdges ==
    { <<"None", "Initialized">>, <<"Initialized", "Iterating">>,
      <<"Iterating", "Converged">>, <<"Iterating", "MaxIterReached">>,
      <<"Iterating", "Failed">> }

\* C8: the training goes Initialized -> Iterating -> Converged |
\* MaxIterReached | Failed; it never runs more than 1000 iterations, an
\* iteration happens only while Iterating, nothing changes the state, the
\* iteration count or the parameters once a terminal state is reached, and
\* a training that is Initialized reaches a terminal state.
C8_TrainingTerminates ==
    /\ [](iter <= 1000 /\ params <= 1000)
    /\ [](trainState = "MaxIterReached" => iter = 1000)
    /\ [][ /\ trainState' # trainState => <<trainState, trainState'>> \in TrainEdges
           /\ (iter' # iter \/ params' # params) =>
                 /\ trainState = "Iterating"
                 /\ iter' = iter + 1
           /\ trainState \in Terminal =>
                 /\ trainState' = trainState
                 /\ iter' = iter
                 /\ params' = params ]_vars
    /\ (trainState = "Initialized") ~> (trainState \in Terminal)

\* the ceiling is reached, and the script has gone on to decode
C8_Witness == trainState = "MaxIterReached" /\ iter = 1000 /\ decoded

\* C9: when the training ends at the ceiling without meeting the tolerance,
\* the run goes on with the fitted parameters, the user is shown a
\* NonConvergenceWarning, and the fit is not reported as converged.
C9_NonConvergenceReported ==
    (trainState = "MaxIterReached" /\ pc \in {"predict", "summary", "report", "done", "aborted"})
    => /\ pc # "aborted"
       /\ "NonConvergenceWarning" \in warned
       /\ \A m \in 1 .. Len(stdout) : stdout[m].msg # "Converged"

-----------------------------------------------------------------------------

\* the frames of the summary: flat bars whose closes double or halve, and
\* the frame whose returns are 0.02, 0.00, -0.01
ObsFrames ==
    UNION { { FlatFrame(cs) : cs \in [1 .. n -> {100, 200, 400}] } : n \in 2 .. MaxObsBars }
    \cup { FlatFrame(<<10000, 10200, 10200, 10098>>) }

\* the state after line 74, the training having met the tolerance in its
\* second iteration
InitSummary == \E bars \in ObsFrames : StateAt(bars, "predict", "Converged", 2)

NextSummary ==
    \/ Predict
    \/ Summarise
    \/ Report

SpecSummary == InitSummary /\ [][NextSummary]_vars

Labels == { data[m].state : m \in 1 .. Len(data) }

Returns(k) == GroupOf(data, k)

FEq(a, b) == a.k = "fin" /\ b.k = "fin" /\ a.n * b.d = b.n * a.d

RECURSIVE SqDev(_, _)
SqDev(vs, mu) ==
    IF vs = <<>> THEN Fin(0, 1)
    ELSE FAdd(FMul(FSub(Head(vs), mu), FSub(Head(vs), mu)), SqDev(Tail(vs), mu))

\* C4: the summary has exactly one entry per label of the decoded path,
\* with the count, the mean and the standard deviation (by its square, the
\* sample variance; undefined for a single value) of the returns decoded to
\* that label, and its entries are in descending order of the mean; the
\* means {0: -0.01, 1: 0.02, 2: 0.00} give the order 1, 2, 0.
C4_SummaryPerLabelDescending ==
    pc \in {"report", "done"} =>
        /\ { summary[j].state : j \in 1 .. Len(summary) } = Labels
        /\ Len(summary) = Cardinality(Labels)
        /\ \A j \in 1 .. Len(summary) :
              LET e == summary[j]
                  vs == Returns(e.state)
              IN  /\ e.Count = Cardinality({ m \in 1 .. Len(data) : data[m].state = e.state })
                  /\ e.Count = Len(vs)
                  /\ FEq(FMul(e.Mean_Return, Fin(e.Count, 1)), FSum(vs))
                  /\ IF e.Count = 1 THEN e.Volatility2.k = "nan"
                     ELSE FEq(FMul(e.Volatility2, Fin(e.Count - 1, 1)),
                              SqDev(vs, e.Mean_Return))
        /\ \A j \in 1 .. Len(summary) - 1 :
              summary[j].Mean_Return.n * summary[j + 1].Mean_Return.d
                 >= summary[j + 1].Mean_Return.n * summary[j].Mean_Return.d
        /\ ( /\ Labels = {0, 1, 2}
             /\ \A j \in 1 .. Len(summary) :
                   <<summary[j].Mean_Return.n, summary[j].Mean_Return.d>> =
                      CASE summary[j].state = 0 -> <<-1, 100>>
                        [] summary[j].state = 1 -> <<1, 50>>
                        [] summary[j].state = 2 -> <<0, 1>> )
           => [j \in 1 .. Len(summary) |-> summary[j].state] = <<1, 2, 0>>

\* the example of the claim
C4_Witness ==
    /\ pc = "done"
    /\ [j \in 1 .. Len(summary) |-> summary[j].state] = <<1, 2, 0>>
    /\ [j \in 1 .. Len(summary) |-> summary[j].Mean_Return.n] = <<1, 0, -1>>

\* C5: the summary has an entry for every one of the 7 states, whether or
\* not the decoded path uses it.
C5_EveryStateHasEntry ==
    pc \in {"report", "done"} =>
        \A k \in 0 .. 6 : \E j \in 1 .. Len(summary) : summary[j].state = k

=============================================================================
